---- MODULE Spec2Model ----
(***************************************************************************)
(* A model of manparse.py: the parameter registry (add_parameter), the     *)
(* restriction dictionaries (dependency_params / incompatible_params) and  *)
(* the parser (parse_params) with its value consumer (_store_action,       *)
(* _parse_list) and the checks that follow the scan.                       *)
(*                                                                         *)
(* Python strings are sequences of one-character strings, so that the      *)
(* regular expressions, str.replace, str.startswith and int() are computed *)
(* character by character.  Python values are records                      *)
(*     [t |-> tag, i |-> integer, s |-> characters, l |-> list items]      *)
(* of one shape, whatever their tag.                                       *)
(***************************************************************************)
EXTENDS Integers, Sequences, FiniteSets, TLC

\* ------------------------------------------------------------------------
\* Characters and strings
\* ------------------------------------------------------------------------

Lower == {"a","b","c","d","e","f","g","h","i","j","k","l","m",
          "n","o","p","q","r","s","t","u","v","w","x","y","z"}

Upper == {"A","B","C","D","E","F","G","H","I","J","K","L","M",
          "N","O","P","Q","R","S","T","U","V","W","X","Y","Z"}

\* the character class [A-Za-z]
Letters == Lower \cup Upper

DigitChars == <<"0","1","2","3","4","5","6","7","8","9">>

IsDigit(c) == \E d \in 1..10 : DigitChars[d] = c

DigitVal(c) == (CHOOSE d \in 1..10 : DigitChars[d] = c) - 1

\* str.startswith('-')
StartsWithDash(s) == Len(s) >= 1 /\ s[1] = "-"

\* str.replace('-', '', 1): the first '-' of the string, wherever it is, is removed
RemoveFirstDash(s) ==
    IF \E k \in 1..Len(s) : s[k] = "-"
    THEN LET k == CHOOSE j \in 1..Len(s) : s[j] = "-" /\ \A m \in 1..(j-1) : s[m] # "-"
         IN  SubSeq(s, 1, k-1) \o SubSeq(s, k+1, Len(s))
    ELSE s

\* str.replace('--', '', 1): the first '--' of the string is removed
RemoveFirstDashDash(s) ==
    IF \E k \in 1..(Len(s)-1) : s[k] = "-" /\ s[k+1] = "-"
    THEN LET k == CHOOSE j \in 1..(Len(s)-1) :
                     /\ s[j] = "-" /\ s[j+1] = "-"
                     /\ \A m \in 1..(j-1) : ~(s[m] = "-" /\ s[m+1] = "-")
         IN  SubSeq(s, 1, k-1) \o SubSeq(s, k+2, Len(s))
    ELSE s

\* re.match('^-[a-zA-Z]$', s)
MatchShortCommand(s) == Len(s) = 2 /\ s[1] = "-" /\ s[2] \in Letters

\* re.match('^-[A-Za-z]+$', s)
MatchShortBundle(s) ==
    Len(s) >= 2 /\ s[1] = "-" /\ \A k \in 2..Len(s) : s[k] \in Letters

\* re.match('^--[A-Za-z]{2,}[A-Za-z_]*[A-Za-z]$', s): after the two dashes at
\* least two letters, then letters or underscores, then a closing letter
MatchLongCommand(s) ==
    /\ Len(s) >= 5
    /\ s[1] = "-" /\ s[2] = "-"
    /\ s[3] \in Letters /\ s[4] \in Letters
    /\ \A k \in 5..(Len(s)-1) : s[k] \in Letters \cup {"_"}
    /\ s[Len(s)] \in Letters

\* ------------------------------------------------------------------------
\* Python values
\* ------------------------------------------------------------------------

PyNone    == [t |-> "none", i |-> 0, s |-> <<>>, l |-> <<>>]
PyStr(s)  == [t |-> "str",  i |-> 0, s |-> s,    l |-> <<>>]
PyInt(n)  == [t |-> "int",  i |-> n, s |-> <<>>, l |-> <<>>]
PyBool(b) == [t |-> "bool", i |-> IF b THEN 1 ELSE 0, s |-> <<>>, l |-> <<>>]
PyList(q) == [t |-> "list", i |-> 0, s |-> <<>>, l |-> q]

SUPPRESS == PyStr(<<"=","=","S","U","P","P","R","E","S","S","=","=">>)

RECURSIVE DigitsValue(_)
DigitsValue(s) ==
    IF Len(s) = 0 THEN 0
    ELSE 10 * DigitsValue(SubSeq(s, 1, Len(s)-1)) + DigitVal(s[Len(s)])

AllDigits(s) == Len(s) >= 1 /\ \A k \in 1..Len(s) : IsDigit(s[k])

\* int(s) for a string without blanks: an optional sign, then digits only
IntParses(s) ==
    IF Len(s) >= 1 /\ s[1] \in {"-", "+"} THEN AllDigits(Tail(s)) ELSE AllDigits(s)

IntOfStr(s) ==
    IF s[1] = "-" THEN 0 - DigitsValue(Tail(s))
    ELSE IF s[1] = "+" THEN DigitsValue(Tail(s))
    ELSE DigitsValue(s)

RECURSIVE NatToStr(_)
NatToStr(n) ==
    IF n < 10 THEN <<DigitChars[n+1]>>
    ELSE NatToStr(n \div 10) \o <<DigitChars[(n % 10) + 1]>>

\* str(n)
IntToStr(n) == IF n < 0 THEN <<"-">> \o NatToStr(0 - n) ELSE NatToStr(n)

\* the builtin types a parameter may carry here: str, int, bool
\* ptype(value) succeeds (no ValueError)
_check_type(ptype, v) ==
    CASE ptype = "str"  -> TRUE
      [] ptype = "bool" -> TRUE
      [] ptype = "int"  -> IF v.t = "str" THEN IntParses(v.s) ELSE v.t \in {"int", "bool"}
      [] OTHER          -> FALSE

\* ptype(value), where _check_type holds
Convert(ptype, v) ==
    CASE ptype = "str" ->
            (CASE v.t = "str"  -> v
               [] v.t = "int"  -> PyStr(IntToStr(v.i))
               [] v.t = "bool" -> PyStr(IF v.i = 1 THEN <<"T","r","u","e">>
                                                   ELSE <<"F","a","l","s","e">>)
               [] OTHER        -> PyStr(<<"N","o","n","e">>))
      [] ptype = "int" ->
            (CASE v.t = "str" -> PyInt(IntOfStr(v.s))
               [] OTHER       -> PyInt(v.i))
      [] ptype = "bool" ->
            (CASE v.t = "str"  -> PyBool(Len(v.s) > 0)
               [] v.t = "none" -> PyBool(FALSE)
               [] OTHER        -> PyBool(v.i # 0))
      [] OTHER -> v

\* ------------------------------------------------------------------------
\* _Parameter
\* ------------------------------------------------------------------------

\* nargs as the caller gives it: None, an int, or one of '+', '*', '?'
NargsNone   == [k |-> "none", n |-> 0]
NargsInt(n) == [k |-> "int",  n |-> n]
NargsPlus   == [k |-> "+",    n |-> 0]
NargsStar   == [k |-> "*",    n |-> 0]
NargsOpt    == [k |-> "?",    n |-> 0]

\* choices: None, or a list of values
NoChoices      == [has |-> FALSE, vals |-> <<>>]
ChoicesOf(seq) == [has |-> TRUE,  vals |-> seq]

ValidTypes   == {"str", "int", "bool"}
ValidActions == {"store", "store_true", "store_false", "help", "version"}

\* "Action check": store_true and store_false replace the caller's default
ActionDefault(action, default) ==
    CASE action = "store_true"  -> PyBool(FALSE)
      [] action = "store_false" -> PyBool(TRUE)
      [] OTHER                  -> default

\* "Default type conversion if it is necessary"; the same lines serve const,
\* for which only None is left alone
NeedsConversion(v, isDefault) ==
    v # PyNone /\ (isDefault => v # SUPPRESS)

ConvertedDefault(ptype, v, isDefault) ==
    IF NeedsConversion(v, isDefault) THEN Convert(ptype, v) ELSE v

\* "Check nargs (default_nargs stores is nargs is passed)"
NargsOf(action, nargs) ==
    IF action \in {"store_true", "store_false"} THEN NargsInt(0)
    ELSE IF nargs.k = "none" THEN NargsInt(1)
    ELSE nargs

NargsValid(action, nargs, default, const) ==
    \/ action \in {"store_true", "store_false"}
    \/ nargs.k = "none"
    \/ nargs.k = "int" /\ nargs.n >= 0
    \/ nargs.k \in {"+", "*"}
    \/ nargs.k = "?" /\ default # PyNone /\ const # PyNone

\* _Parameter.__init__: TRUE when no ParameterError is raised.  kw holds the
\* keyword arguments type, action, nargs, default, const, required, choices.
ParameterOk(kw) ==
    LET d == ActionDefault(kw.action, kw.default) IN
    /\ kw.type \in ValidTypes
    /\ kw.action \in ValidActions
    /\ NeedsConversion(d, TRUE) => _check_type(kw.type, d)
    /\ NeedsConversion(kw.const, FALSE) => _check_type(kw.type, kw.const)
    /\ NargsValid(kw.action, kw.nargs,
                  ConvertedDefault(kw.type, d, TRUE),
                  ConvertedDefault(kw.type, kw.const, FALSE))

\* _Parameter.__init__: the object built when ParameterOk holds.  long_name is
\* meaningful when has_long; without it the attribute is None, equal to no name.
NewParameter(name, has_long, long_name, dest, kw) ==
    [ name          |-> name,
      has_long      |-> has_long,
      long_name     |-> long_name,
      dest          |-> dest,
      required      |-> kw.required,
      type          |-> kw.type,
      action        |-> kw.action,
      default       |-> ConvertedDefault(kw.type, ActionDefault(kw.action, kw.default), TRUE),
      const         |-> ConvertedDefault(kw.type, kw.const, FALSE),
      choices       |-> IF kw.choices.has
                        THEN ChoicesOf([k \in 1..Len(kw.choices.vals) |->
                                           Convert(kw.type, kw.choices.vals[k])])
                        ELSE NoChoices,
      default_nargs |-> kw.nargs.k = "none",
      nargs         |-> NargsOf(kw.action, kw.nargs) ]

\* the keyword arguments left at their defaults
DefaultKw ==
    [ type |-> "str", action |-> "store", nargs |-> NargsNone, default |-> PyNone,
      const |-> PyNone, required |-> FALSE, choices |-> NoChoices ]

\* ------------------------------------------------------------------------
\* Namespace
\* ------------------------------------------------------------------------

\* A Namespace is the function from its attribute names to their values.
EmptyNamespace == <<>>

\* Namespace.__contains__: key in self.__dict__
NsContains(ns, key) == key \in DOMAIN ns

\* Namespace.__iter__: the attribute names that do not start with '_' and
\* are not 'next'
NsIter(ns) ==
    { a \in DOMAIN ns : ~(Len(a) >= 1 /\ a[1] = "_") /\ a # <<"n","e","x","t">> }

\* setattr(namespace, key, value)
SetAttr(ns, key, value) == (key :> value) @@ ns

\* ------------------------------------------------------------------------
\* _parse_list and _store_action: the value consumer
\* ------------------------------------------------------------------------

\* args[i] and args[lo:hi] with Python's 0-based indices; a slice is clamped
\* to the list
Arg(args, i) == args[i+1]

Min(a, b) == IF a < b THEN a ELSE b

Slice(args, lo, hi) == SubSeq(args, lo+1, Min(hi, Len(args)))

\* IsCandidateValue without the integer clause: every token that begins
\* with '-' is refused
IsCandidateValueNoInt(v) == ~StartsWithDash(v.s)

\* "Check if value is a valid value and not a parameter":
\* _check_type(int, value) or not value.startswith('-')
IsCandidateValue(v) == _check_type("int", v) \/ ~StartsWithDash(v.s)

\* _check_choices
_check_choices(choices, v) ==
    ~choices.has \/ \E k \in 1..Len(choices.vals) : choices.vals[k] = v

\* the error _parse_list raises on one value, "" when it appends the value
ValueProblem(parameter, v) ==
    IF ~IsCandidateValue(v) THEN "is not a valid value"
    ELSE IF ~_check_type(parameter.type, v) THEN "is not type"
    ELSE IF ~_check_choices(parameter.choices, Convert(parameter.type, v)) THEN "not in choices"
    ELSE ""

\* _parse_list, "for value in slist": the first error raised, "" for none
RECURSIVE FirstProblem(_, _)
FirstProblem(parameter, slist) ==
    IF Len(slist) = 0 THEN ""
    ELSE IF ValueProblem(parameter, slist[1]) # "" THEN ValueProblem(parameter, slist[1])
    ELSE FirstProblem(parameter, Tail(slist))

\* _parse_list: [err, vals]; err is "" when the list is returned
_parse_list(parameter, slist) ==
    IF parameter.nargs.k = "int" /\ parameter.nargs.n > Len(slist)
    THEN [err |-> "needs N values", vals |-> <<>>]
    ELSE IF FirstProblem(parameter, slist) # ""
    THEN [err |-> FirstProblem(parameter, slist), vals |-> <<>>]
    ELSE [err |-> "", vals |-> [k \in 1..Len(slist) |-> Convert(parameter.type, slist[k])]]

\* the tokens of args as Python str values
StrArgs(args) == [k \in 1..Len(args) |-> PyStr(args[k])]

\* CandidateRun stopping after one token
CandidateRunOne(toks) ==
    IF Len(toks) = 0 \/ ~(_check_type("int", toks[1]) \/ ~StartsWithDash(toks[1].s))
    THEN <<>> ELSE <<toks[1]>>

\* the longest run of candidate values at the head of a list of tokens
RECURSIVE CandidateRun(_)
CandidateRun(toks) ==
    IF Len(toks) = 0 \/ ~IsCandidateValue(toks[1]) THEN <<>>
    ELSE <<toks[1]>> \o CandidateRun(Tail(toks))

\* _store_action, the branch of an int nargs: what is stored under dest
FixedStored(list_values) ==
    IF Len(list_values) = 1 THEN list_values[1] ELSE PyList(list_values)

\* _store_action, the branch of '?', '+' and '*': what is stored under dest
VariableStored(param, list_values) ==
    IF param.default_nargs THEN list_values[1] ELSE PyList(list_values)

\* _store_action, nargs '?': a token follows the flag and it is a candidate value
OptionalTakes(external_index, args) ==
    /\ Len(args) # external_index + 1
    /\ IsCandidateValue(PyStr(Arg(args, external_index + 1)))

\* _store_action, nargs '?': the values handed to _parse_list ("Take const")
OptionalArgs(param, external_index, args) ==
    IF OptionalTakes(external_index, args)
    THEN <<PyStr(Arg(args, external_index + 1))>>
    ELSE <<param.const>>

\* _store_action: largs, the values handed to _parse_list
ValueArgs(param, external_index, args) ==
    IF param.nargs.k = "int"
    THEN StrArgs(Slice(args, external_index + 1, external_index + 1 + param.nargs.n))
    ELSE IF param.nargs.k = "?" THEN OptionalArgs(param, external_index, args)
    ELSE CandidateRun(StrArgs(Slice(args, external_index + 1, Len(args))))

\* NextIndex moving past one token for an int nargs, whatever nargs is
NextIndexOne(param, external_index, args) ==
    IF param.nargs.k = "int" THEN external_index + 1
    ELSE IF param.nargs.k = "?"
    THEN external_index + (IF OptionalTakes(external_index, args) THEN 1 ELSE 0)
    ELSE external_index + Len(CandidateRun(StrArgs(Slice(args, external_index + 1,
                                                         Len(args)))))

\* _store_action: external_index once the values are taken
NextIndex(param, external_index, args) ==
    IF param.nargs.k = "int" THEN external_index + param.nargs.n
    ELSE IF param.nargs.k = "?"
    THEN external_index + (IF OptionalTakes(external_index, args) THEN 1 ELSE 0)
    ELSE external_index + Len(CandidateRun(StrArgs(Slice(args, external_index + 1,
                                                         Len(args)))))

\* _store_action: what is stored under dest for the list _parse_list returned
StoredValue(param, list_values) ==
    IF param.nargs.k = "int" THEN FixedStored(list_values)
    ELSE VariableStored(param, list_values)

\* _store_action, action 'store': r is what _parse_list gave for largs
StoreValues(param, namespace, index, r) ==
    IF r.err # "" THEN [err |-> r.err, ns |-> namespace, index |-> index]
    ELSE IF param.nargs.k = "+" /\ Len(r.vals) = 0
    THEN [err |-> "need at least one value", ns |-> namespace, index |-> index]
    ELSE [err |-> "", ns |-> SetAttr(namespace, param.dest, StoredValue(param, r.vals)),
          index |-> index]

\* _store_action: [err, ns, index], err "" when the value was stored.
StoreAction(param, namespace, external_index, args) ==
    IF param.dest \in NsIter(namespace)
    THEN [err |-> "passed more than one time", ns |-> namespace, index |-> external_index]
    ELSE IF param.action = "store_true"
    THEN [err |-> "", ns |-> SetAttr(namespace, param.dest, PyBool(TRUE)),
          index |-> external_index]
    ELSE IF param.action = "store_false"
    THEN [err |-> "", ns |-> SetAttr(namespace, param.dest, PyBool(FALSE)),
          index |-> external_index]
    ELSE StoreValues(param, namespace, NextIndex(param, external_index, args),
                     _parse_list(param, ValueArgs(param, external_index, args)))

\* ------------------------------------------------------------------------
\* parse_params: the scan
\* ------------------------------------------------------------------------

\* _valid_parameter: the position in self.parameters of the first parameter
\* with that short (or long) name, 0 for False
_valid_parameter(params, type_param, name) ==
    LET hit(k) == IF type_param = "short" THEN params[k].name = name
                  ELSE params[k].has_long /\ params[k].long_name = name
    IN  IF \E k \in 1..Len(params) : hit(k)
        THEN CHOOSE k \in 1..Len(params) : hit(k) /\ \A m \in 1..(k-1) : ~hit(m)
        ELSE 0

\* The scan's state: the cursor, the namespace, the error raised ("" for
\* none) and the parameter it names, the exit taken by help or version, and
\* two records of what happened: the names appended to user_name_parameters
\* and the calls of _do_action that returned.
ScanInit ==
    [ index |-> 0, ns |-> EmptyNamespace, err |-> "", errparam |-> <<>>,
      exit |-> "", resolved |-> <<>>, events |-> <<>> ]

Stopped(sc) == sc.err # "" \/ sc.exit # ""

\* _do_action, the call of _store_action: r is what it gave
Stored(param, sc, r) ==
    IF r.err # ""
    THEN [sc EXCEPT !.err = r.err, !.errparam = param.name]
    ELSE [sc EXCEPT !.ns = r.ns, !.index = r.index,
                    !.events = Append(@, [ name |-> param.name,
                                           from |-> sc.index,
                                           to   |-> r.index,
                                           val  |-> r.ns[param.dest] ])]

\* _do_action
DoAction(param, sc, args) ==
    IF param.action = "help" THEN [sc EXCEPT !.exit = "help"]
    ELSE IF param.action = "version" THEN [sc EXCEPT !.exit = "version"]
    ELSE Stored(param, sc, StoreAction(param, sc.ns, sc.index, args))

\* self.user_name_parameters.append(validated_param.name), then _do_action
Resolve(param, sc, args) ==
    DoAction(param, [sc EXCEPT !.resolved = Append(@, param.name)], args)

\* BundleLoop resolving the first letter of the token only
BundleLoopFirst(params, letters, k, sc, args) ==
    IF k > 1 \/ Stopped(sc) THEN sc
    ELSE LET v == _valid_parameter(params, "short", <<letters[k]>>)
         IN  IF v # 0 THEN Resolve(params[v], sc, args)
             ELSE [sc EXCEPT !.err = "not a valid parameter"]

\* "for p in checking_param": the letters of a short token, from letter k on
RECURSIVE BundleLoop(_, _, _, _, _)
BundleLoop(params, letters, k, sc, args) ==
    IF k > Len(letters) \/ Stopped(sc) THEN sc
    ELSE LET v == _valid_parameter(params, "short", <<letters[k]>>)
         IN  IF v # 0
             THEN BundleLoop(params, letters, k + 1, Resolve(params[v], sc, args), args)
             ELSE [sc EXCEPT !.err = "not a valid parameter"]

\* the body of the main loop for the token under the cursor
ScanToken(params, sc, args) ==
    LET checking_param == Arg(args, sc.index) IN
    IF MatchShortBundle(checking_param)
    THEN BundleLoop(params, RemoveFirstDash(checking_param), 1, sc, args)
    ELSE IF MatchLongCommand(checking_param)
    THEN LET v == _valid_parameter(params, "long", RemoveFirstDashDash(checking_param))
         IN  IF v # 0 THEN Resolve(params[v], sc, args)
             ELSE [sc EXCEPT !.err = "not valid parameter"]
    ELSE [sc EXCEPT !.err = "not a valid parameter format"]

\* "index += 1", reached when the token raised no error and did not exit
Advance(sc) == IF Stopped(sc) THEN sc ELSE [sc EXCEPT !.index = @ + 1]

\* "Main loop": while index < args_len
RECURSIVE ScanLoop(_, _, _)
ScanLoop(params, sc, args) ==
    IF Stopped(sc) \/ ~(sc.index < Len(args)) THEN sc
    ELSE ScanLoop(params, Advance(ScanToken(params, sc, args)), args)

\* ------------------------------------------------------------------------
\* parse_params: the checks after the scan
\* ------------------------------------------------------------------------

Range(q) == { q[k] : k \in 1..Len(q) }

\* list(set(value)): the distinct items, in an order the set alone decides
RECURSIVE ListOfSet(_)
ListOfSet(S) ==
    IF S = {} THEN <<>>
    ELSE LET x == CHOOSE y \in S : TRUE IN <<x>> \o ListOfSet(S \ {x})

\* _check_required_param: the required parameters whose dest the namespace
\* does not iterate over, in registry order
RECURSIVE _check_required_param(_, _)
_check_required_param(params, namespace) ==
    IF Len(params) = 0 THEN <<>>
    ELSE (IF params[1].required /\ params[1].dest \notin NsIter(namespace)
          THEN <<params[1].dest>> ELSE <<>>)
         \o _check_required_param(Tail(params), namespace)

\* "First check incompatible_params_restrictions": the restrictions of key
\* value that were passed too
IncompatibleResult(inc, value, uname) ==
    LET passed(i) == RemoveFirstDash(i) \in uname
    IN  IF RemoveFirstDash(value) \in uname THEN SelectSeq(inc[value], passed) ELSE <<>>

\* "Then check dependency_params_restrictions": the restrictions of key value
\* that were not passed
DependencyResult(dep, value, uname) ==
    LET absent(i) == RemoveFirstDash(i) \notin uname
    IN  IF RemoveFirstDash(value) \in uname THEN SelectSeq(dep[value], absent) ELSE <<>>

\* _complete_namespace without the test "p.dest not in namespace"
RECURSIVE CompleteOverwriting(_, _)
CompleteOverwriting(params, namespace) ==
    IF Len(params) = 0 THEN namespace
    ELSE CompleteOverwriting(Tail(params),
             IF params[1].default # SUPPRESS
             THEN SetAttr(namespace, params[1].dest, params[1].default)
             ELSE namespace)

\* _complete_namespace
RECURSIVE _complete_namespace(_, _)
_complete_namespace(params, namespace) ==
    IF Len(params) = 0 THEN namespace
    ELSE LET p == params[1]
         IN  _complete_namespace(Tail(params),
                 IF p.default # SUPPRESS /\ ~NsContains(namespace, p.dest)
                 THEN SetAttr(namespace, p.dest, p.default)
                 ELSE namespace)

\* Finish with the dependency check made before the incompatibility check
FinishDependencyFirst(params, dep, inc, uname, args, sc) ==
    LET missing == _check_required_param(params, sc.ns)
        incBad  == { v \in DOMAIN inc : Len(IncompatibleResult(inc, v, uname)) # 0 }
        depBad  == { v \in DOMAIN dep : Len(DependencyResult(dep, v, uname)) # 0 }
        base    == [ kind |-> "ok", stage |-> "", err |-> "", errparam |-> <<>>,
                     detail |-> <<>>, args |-> args, resolved |-> sc.resolved,
                     events |-> sc.events, index |-> sc.index,
                     scan_ns |-> sc.ns, ns |-> sc.ns, uname |-> uname ]
    IN  IF sc.exit # "" THEN { [base EXCEPT !.kind = sc.exit] }
        ELSE IF sc.err # ""
        THEN { [base EXCEPT !.kind = "error", !.stage = "scan", !.err = sc.err,
                            !.errparam = sc.errparam] }
        ELSE IF Len(missing) # 0
        THEN { [base EXCEPT !.kind = "error", !.stage = "required",
                            !.err = "missing required parameters",
                            !.detail = missing] }
        ELSE IF depBad # {}
        THEN { [base EXCEPT !.kind = "error", !.stage = "dependency",
                            !.err = "missing required parameters",
                            !.errparam = RemoveFirstDash(v),
                            !.detail = DependencyResult(dep, v, uname)] : v \in depBad }
        ELSE IF incBad # {}
        THEN { [base EXCEPT !.kind = "error", !.stage = "incompatible",
                            !.err = "incompatible parameters",
                            !.errparam = RemoveFirstDash(v),
                            !.detail = IncompatibleResult(inc, v, uname)] : v \in incBad }
        ELSE { [base EXCEPT !.ns = _complete_namespace(params, sc.ns)] }

\* parse_params after the main loop, sc being where the scan stopped: the set
\* of the call's possible outcomes.  The dictionaries are iterated in an
\* order the model leaves open, so that when several keys are violated any of
\* them may be the one reported.
\*   kind   "ok", "error" (exit status 2), "help" or "version" (exit status 0)
\*   stage  where the error was raised: "scan", "required", "incompatible",
\*          "dependency"
\*   index  the cursor when the scan stopped
\*   uname  self.user_name_parameters when the call ends
Finish(params, dep, inc, uname, args, sc) ==
    LET missing == _check_required_param(params, sc.ns)
        incBad  == { v \in DOMAIN inc : Len(IncompatibleResult(inc, v, uname)) # 0 }
        depBad  == { v \in DOMAIN dep : Len(DependencyResult(dep, v, uname)) # 0 }
        base    == [ kind |-> "ok", stage |-> "", err |-> "", errparam |-> <<>>,
                     detail |-> <<>>, args |-> args, resolved |-> sc.resolved,
                     events |-> sc.events, index |-> sc.index,
                     scan_ns |-> sc.ns, ns |-> sc.ns, uname |-> uname ]
    IN  IF sc.exit # "" THEN { [base EXCEPT !.kind = sc.exit] }
        ELSE IF sc.err # ""
        THEN { [base EXCEPT !.kind = "error", !.stage = "scan", !.err = sc.err,
                            !.errparam = sc.errparam] }
        ELSE IF Len(missing) # 0
        THEN { [base EXCEPT !.kind = "error", !.stage = "required",
                            !.err = "missing required parameters",
                            !.detail = missing] }
        ELSE IF incBad # {}
        THEN { [base EXCEPT !.kind = "error", !.stage = "incompatible",
                            !.err = "incompatible parameters",
                            !.errparam = RemoveFirstDash(v),
                            !.detail = IncompatibleResult(inc, v, uname)] : v \in incBad }
        ELSE IF depBad # {}
        THEN { [base EXCEPT !.kind = "error", !.stage = "dependency",
                            !.err = "missing required parameters",
                            !.errparam = RemoveFirstDash(v),
                            !.detail = DependencyResult(dep, v, uname)] : v \in depBad }
        ELSE { [base EXCEPT !.ns = _complete_namespace(params, sc.ns)] }

\* self.user_name_parameters once the scan has appended the names it resolved
NamesAfter(uname0, sc) == uname0 \cup Range(sc.resolved)

\* the scan, and then the checks, with the names the scan left
Checked(params, dep, inc, uname0, args, sc) ==
    Finish(params, dep, inc, NamesAfter(uname0, sc), args, sc)

\* What one call of parse_params does: the set of its possible outcomes
ParseOutcomes(params, dep, inc, uname0, args) ==
    Checked(params, dep, inc, uname0, args, ScanLoop(params, ScanInit, args))

\* ------------------------------------------------------------------------
\* add_parameter
\* ------------------------------------------------------------------------

\* A call add_parameter(short_command, long_command, **kwargs):
\*   [short, has_long, long, has_dest, dest, kw]
ShortName(call) == RemoveFirstDash(call.short)
LongName(call)  == RemoveFirstDashDash(call.long)

DestOf(call) ==
    IF call.has_dest THEN call.dest
    ELSE IF call.has_long THEN LongName(call)
    ELSE ShortName(call)

\* AddParameterError without the "Checking dest" loop
AddParameterErrorNoDest(params, call) ==
    IF ~MatchShortCommand(call.short) THEN "is not valid as short command"
    ELSE IF \E k \in 1..Len(params) : params[k].name = ShortName(call)
    THEN "duplicated as short command"
    ELSE IF call.has_long /\ ~MatchLongCommand(call.long)
    THEN "is not valid as long command"
    ELSE IF call.has_long /\ \E k \in 1..Len(params) :
                                 params[k].has_long /\ params[k].long_name = LongName(call)
    THEN "duplicate as long command"
    ELSE IF ~ParameterOk(call.kw) THEN "parameter"
    ELSE ""

\* the ParameterError add_parameter raises, "" when the parameter is appended
AddParameterError(params, call) ==
    IF ~MatchShortCommand(call.short) THEN "is not valid as short command"
    ELSE IF \E k \in 1..Len(params) : params[k].name = ShortName(call)
    THEN "duplicated as short command"
    ELSE IF call.has_long /\ ~MatchLongCommand(call.long)
    THEN "is not valid as long command"
    ELSE IF call.has_long /\ \E k \in 1..Len(params) :
                                 params[k].has_long /\ params[k].long_name = LongName(call)
    THEN "duplicate as long command"
    ELSE IF \E k \in 1..Len(params) : params[k].dest = DestOf(call)
    THEN "duplicate as dest"
    ELSE IF ~ParameterOk(call.kw) THEN "parameter"
    ELSE ""

\* self.parameters after the call
AddParameterResult(params, call) ==
    IF AddParameterError(params, call) # "" THEN params
    ELSE Append(params, NewParameter(ShortName(call), call.has_long,
                                     IF call.has_long THEN LongName(call) ELSE <<>>,
                                     DestOf(call), call.kw))

\* ------------------------------------------------------------------------
\* dependency_params and incompatible_params
\* ------------------------------------------------------------------------

\* A restriction dictionary is a function from the keys, as the caller wrote
\* them, to lists of identifiers, as the caller wrote them.
EmptyDict == <<>>

\* "Check last parameters": every identifier of the restriction is the short
\* name of a parameter once its first '-' is removed
RestrictionKnown(params, restriction) ==
    \A k \in 1..Len(restriction) :
        _valid_parameter(params, "short", RemoveFirstDash(restriction[k])) # 0

\* the ParameterError one key p raises in "Checking first parameters", ""
\* when p passes the checks; other is the opposite dictionary
KeyError(params, other, p, restriction) ==
    IF _valid_parameter(params, "short", RemoveFirstDash(p)) = 0 THEN "not exists"
    ELSE IF p \in Range(restriction) THEN "cannot be a restriction to itself"
    ELSE IF p \in DOMAIN other /\ \E k \in 1..Len(restriction) :
                                      restriction[k] \in Range(other[p])
    THEN "cannot be a dependency and incompatibility to the same param"
    ELSE ""

\* "for p in args[:len(args)-1]" from key k on.  own is the dictionary the
\* call writes; aliased holds the keys whose list is the call's own
\* restriction list (own[p] = restriction stores the object, not a copy).
\* Appending the restriction to a list that is the restriction itself never
\* ends: its iteration sees every item it appends.
RECURSIVE KeysLoop(_, _, _, _, _, _, _)
KeysLoop(params, own, other, keys, k, restriction, aliased) ==
    IF k > Len(keys) THEN [err |-> "", hang |-> FALSE, dict |-> own]
    ELSE LET p == keys[k]
             e == KeyError(params, other, p, restriction)
         IN  IF e # "" THEN [err |-> e, hang |-> FALSE, dict |-> own]
             ELSE IF p \in DOMAIN own
             THEN IF p \in aliased /\ Len(restriction) > 0
                  THEN [err |-> "", hang |-> TRUE, dict |-> own]
                  ELSE KeysLoop(params, (p :> (own[p] \o restriction)) @@ own, other,
                                keys, k + 1, restriction, aliased)
             ELSE KeysLoop(params, (p :> restriction) @@ own, other,
                           keys, k + 1, restriction, aliased \cup {p})

\* "Remove duplicate values in each key"
RemoveDuplicates(dict) == [key \in DOMAIN dict |-> ListOfSet(Range(dict[key]))]

\* dependency_params(*keys, restriction) on own = the dependency dictionary,
\* incompatible_params likewise on own = the incompatibility dictionary:
\* [err, hang, dict]
Declare(params, own, other, keys, restriction) ==
    IF Len(keys) < 1
    THEN [err |-> "it needs two parameters at least", hang |-> FALSE, dict |-> own]
    ELSE IF ~RestrictionKnown(params, restriction)
    THEN [err |-> "not exists", hang |-> FALSE, dict |-> own]
    ELSE LET r == KeysLoop(params, own, other, keys, 1, restriction, {})
         IN  IF r.err # "" \/ r.hang THEN r
             ELSE [r EXCEPT !.dict = RemoveDuplicates(r.dict)]

\* ------------------------------------------------------------------------
\* The parser as a state machine
\* ------------------------------------------------------------------------

VARIABLES
    parameters,                        \* self.parameters
    dependency_params_restrictions,    \* self.dependency_params_restrictions
    incompatible_params_restrictions,  \* self.incompatible_params_restrictions
    user_name_parameters,              \* self.user_name_parameters, as the set of its items
    status,                            \* "running", "exit0", "exit2" (sys.exit) or "hang"
    last,                              \* the last call made and what it did
    parses,                            \* parse_params calls made
    decls                              \* dependency_params / incompatible_params calls made

vars == << parameters, dependency_params_restrictions, incompatible_params_restrictions,
           user_name_parameters, status, last, parses, decls >>

\* ParameterParser.__init__: the parameters it registers itself
HelpCall ==
    [ short |-> <<"-","h">>, has_long |-> TRUE, long |-> <<"-","-","h","e","l","p">>,
      has_dest |-> FALSE, dest |-> <<>>,
      kw |-> [DefaultKw EXCEPT !.action = "help", !.default = SUPPRESS] ]

VersionCall ==
    [ short |-> <<"-","V">>, has_long |-> TRUE,
      long |-> <<"-","-","v","e","r","s","i","o","n">>,
      has_dest |-> FALSE, dest |-> <<>>,
      kw |-> [DefaultKw EXCEPT !.action = "version", !.default = SUPPRESS] ]

\* self.parameters when __init__ returns
Constructor(add_help, has_version) ==
    LET p1 == IF add_help THEN AddParameterResult(<<>>, HelpCall) ELSE <<>>
    IN  IF has_version THEN AddParameterResult(p1, VersionCall) ELSE p1

\* self.parameters after a sequence of add_parameter calls
RECURSIVE Registered(_, _)
Registered(params, calls) ==
    IF Len(calls) = 0 THEN params
    ELSE Registered(AddParameterResult(params, calls[1]), Tail(calls))

\* bounds of the model
MaxParams == 4
MaxDecls == 2
MaxParses == 2
MaxArgs == 3

\* the lists of at most n items of S
SeqsUpTo(S, n) == UNION { [1..k -> S] : k \in 0..n }

\* ParameterParser.__init__
Init ==
    /\ \E add_help \in BOOLEAN, has_version \in BOOLEAN :
           parameters = Constructor(add_help, has_version)
    /\ dependency_params_restrictions = EmptyDict
    /\ incompatible_params_restrictions = EmptyDict
    /\ user_name_parameters = {}
    /\ status = "running"
    /\ last = [op |-> "init"]
    /\ parses = 0
    /\ decls = 0

\* add_parameter; a ParameterError ends in _error, which exits with status 2
AddParameter(call) ==
    /\ status = "running"
    /\ Len(parameters) < MaxParams
    /\ parameters' = AddParameterResult(parameters, call)
    /\ status' = IF AddParameterError(parameters, call) = "" THEN "running" ELSE "exit2"
    /\ last' = [op |-> "add", call |-> call, err |-> AddParameterError(parameters, call)]
    /\ UNCHANGED << dependency_params_restrictions, incompatible_params_restrictions,
                    user_name_parameters, parses, decls >>

DeclStatus(r) == IF r.hang THEN "hang" ELSE IF r.err # "" THEN "exit2" ELSE "running"

\* dependency_params
DependencyParams(keys, restriction) ==
    /\ status = "running"
    /\ decls < MaxDecls
    /\ LET r == Declare(parameters, dependency_params_restrictions,
                        incompatible_params_restrictions, keys, restriction)
       IN  /\ dependency_params_restrictions' = r.dict
           /\ status' = DeclStatus(r)
           /\ last' = [op |-> "dependency", keys |-> keys, restriction |-> restriction,
                       err |-> r.err]
    /\ decls' = decls + 1
    /\ UNCHANGED << parameters, incompatible_params_restrictions,
                    user_name_parameters, parses >>

\* incompatible_params
IncompatibleParams(keys, restriction) ==
    /\ status = "running"
    /\ decls < MaxDecls
    /\ LET r == Declare(parameters, incompatible_params_restrictions,
                        dependency_params_restrictions, keys, restriction)
       IN  /\ incompatible_params_restrictions' = r.dict
           /\ status' = DeclStatus(r)
           /\ last' = [op |-> "incompatible", keys |-> keys, restriction |-> restriction,
                       err |-> r.err]
    /\ decls' = decls + 1
    /\ UNCHANGED << parameters, dependency_params_restrictions,
                    user_name_parameters, parses >>

\* parse_params(args), with a Namespace of its own
ParseParams(args) ==
    /\ status = "running"
    /\ parses < MaxParses
    /\ \E out \in ParseOutcomes(parameters, dependency_params_restrictions,
                                incompatible_params_restrictions,
                                user_name_parameters, args) :
           /\ last' = [op |-> "parse", out |-> out]
           /\ user_name_parameters' = out.uname
           /\ status' = CASE out.kind = "ok"    -> "running"
                          [] out.kind = "error" -> "exit2"
                          [] OTHER              -> "exit0"
    /\ parses' = parses + 1
    /\ UNCHANGED << parameters, dependency_params_restrictions,
                    incompatible_params_restrictions, decls >>

\* ------------------------------------------------------------------------
\* Spec: a parser of flags, its restrictions and its parses
\* ------------------------------------------------------------------------

StoreTrueKw  == [DefaultKw EXCEPT !.action = "store_true"]
StoreFalseKw == [DefaultKw EXCEPT !.action = "store_false"]

ShortCall(short, kw) ==
    [ short |-> short, has_long |-> FALSE, long |-> <<>>,
      has_dest |-> FALSE, dest |-> <<>>, kw |-> kw ]

LongCall(short, long, kw) ==
    [ short |-> short, has_long |-> TRUE, long |-> long,
      has_dest |-> FALSE, dest |-> <<>>, kw |-> kw ]

DestCall(short, dest, kw) ==
    [ short |-> short, has_long |-> FALSE, long |-> <<>>,
      has_dest |-> TRUE, dest |-> dest, kw |-> kw ]

\* add_parameter('-a', '--alpha', action='store_true') and
\* add_parameter('-b', action='store_true')
FlagCalls ==
    { LongCall(<<"-","a">>, <<"-","-","a","l","p","h","a">>, StoreTrueKw),
      ShortCall(<<"-","b">>, StoreTrueKw) }

\* identifiers handed to dependency_params and incompatible_params
FlagIdents == { <<"a">>, <<"-","a">>, <<"b">> }

FlagTokens ==
    { <<"-","a">>, <<"-","b">>, <<"-","a","b">>, <<"-","-","a","l","p","h","a">>,
      <<"-","h">> }

Next ==
    \/ \E call \in FlagCalls : AddParameter(call)
    \/ \E p \in FlagIdents, r \in FlagIdents : DependencyParams(<<p>>, <<r>>)
    \/ \E p \in FlagIdents, r \in FlagIdents : IncompatibleParams(<<p>>, <<r>>)
    \/ \E args \in SeqsUpTo(FlagTokens, MaxArgs) : ParseParams(args)

Spec == Init /\ [][Next]_vars

\* ------------------------------------------------------------------------
\* SpecRegistry: the registry under add_parameter calls of every kind
\* ------------------------------------------------------------------------

\* add_parameter calls that collide on a short name, a long name or a dest,
\* with each other or with -h/--help and -V/--version, and calls that
\* _Parameter or the flag syntax rejects
RegistryCalls ==
    { LongCall(<<"-","a">>, <<"-","-","a","l","p","h","a">>, StoreTrueKw),
      ShortCall(<<"-","a">>, DefaultKw),
      ShortCall(<<"-","b">>, StoreTrueKw),
      LongCall(<<"-","c">>, <<"-","-","a","l","p","h","a">>, StoreFalseKw),
      DestCall(<<"-","c">>, <<"b">>, DefaultKw),
      DestCall(<<"-","d">>, <<"a","l","p","h","a">>, DefaultKw),
      LongCall(<<"-","d">>, <<"-","-","h","e","l","p">>, DefaultKw),
      ShortCall(<<"-","h">>, StoreTrueKw),
      DestCall(<<"-","e">>, <<"v","e","r","s","i","o","n">>, DefaultKw),
      ShortCall(<<"-","V">>, DefaultKw),
      ShortCall(<<"-","-","a">>, StoreTrueKw),
      LongCall(<<"-","e">>, <<"-","-","a","_">>, DefaultKw),
      ShortCall(<<"-","e">>, [DefaultKw EXCEPT !.nargs = NargsOpt]),
      ShortCall(<<"-","e">>, [DefaultKw EXCEPT !.type = "int",
                                               !.default = PyStr(<<"x">>)]) }

NextRegistry == \E call \in RegistryCalls : AddParameter(call)

SpecRegistry == Init /\ [][NextRegistry]_vars

\* ------------------------------------------------------------------------
\* SpecStore: one parse_params call on a parser of value parameters
\* ------------------------------------------------------------------------

\* add_parameter('-i', '--integers', type=int, nargs='+')
\* add_parameter('-s', nargs='*')
\* add_parameter('-o', type=int, nargs='?', default='10', const=1)
\* add_parameter('-n', type=int, nargs=1)
\* add_parameter('-m', default='d')
\* add_parameter('-t', nargs=2)
\* add_parameter('-a', action='store_true')
\* add_parameter('-b', action='store_true')
\* add_parameter('-c', action='store_false')
\* add_parameter('-q', default=SUPPRESS)
StoreCalls ==
    << LongCall(<<"-","i">>, <<"-","-","i","n","t","e","g","e","r","s">>,
                [DefaultKw EXCEPT !.type = "int", !.nargs = NargsPlus]),
       ShortCall(<<"-","s">>, [DefaultKw EXCEPT !.nargs = NargsStar]),
       ShortCall(<<"-","o">>, [DefaultKw EXCEPT !.type = "int", !.nargs = NargsOpt,
                                                !.default = PyStr(<<"1","0">>),
                                                !.const = PyInt(1)]),
       ShortCall(<<"-","n">>, [DefaultKw EXCEPT !.type = "int", !.nargs = NargsInt(1)]),
       ShortCall(<<"-","m">>, [DefaultKw EXCEPT !.default = PyStr(<<"d">>)]),
       ShortCall(<<"-","t">>, [DefaultKw EXCEPT !.nargs = NargsInt(2)]),
       ShortCall(<<"-","a">>, StoreTrueKw),
       ShortCall(<<"-","b">>, StoreTrueKw),
       ShortCall(<<"-","c">>, StoreFalseKw),
       ShortCall(<<"-","q">>, [DefaultKw EXCEPT !.default = SUPPRESS]) >>

StoreTokens ==
    { <<"-","i">>, <<"-","s">>, <<"-","o">>, <<"-","n">>, <<"-","m">>, <<"-","t">>,
      <<"-","a">>, <<"-","a","b","c">>, <<"-","c","b">>,
      <<"1">>, <<"2">>, <<"7">>, <<"-","5">>, <<"-","1",".","5">>, <<"x">> }

\* the parser after __init__() and the add_parameter calls above
InitStore ==
    /\ parameters = Registered(Constructor(TRUE, FALSE), StoreCalls)
    /\ dependency_params_restrictions = EmptyDict
    /\ incompatible_params_restrictions = EmptyDict
    /\ user_name_parameters = {}
    /\ status = "running"
    /\ last = [op |-> "init"]
    /\ parses = 0
    /\ decls = 0

NextStore == parses = 0 /\ \E args \in SeqsUpTo(StoreTokens, MaxArgs) : ParseParams(args)

SpecStore == InitStore /\ [][NextStore]_vars

\* ------------------------------------------------------------------------
\* SpecScan: one parse_params call on a parser of switches
\* ------------------------------------------------------------------------

\* add_parameter('-a', '--alpha', action='store_true')
\* add_parameter('-b', action='store_true', type=int)
\* add_parameter('-c', action='store_false', type=bool)
\* add_parameter('-u', dest='_u', action='store_true')
ScanCalls ==
    << LongCall(<<"-","a">>, <<"-","-","a","l","p","h","a">>, StoreTrueKw),
       ShortCall(<<"-","b">>, [StoreTrueKw EXCEPT !.type = "int"]),
       ShortCall(<<"-","c">>, [StoreFalseKw EXCEPT !.type = "bool"]),
       DestCall(<<"-","u">>, <<"_","u">>, StoreTrueKw) >>

ScanTokens ==
    { <<"-","a">>, <<"-","-","a","l","p","h","a">>, <<"-","b">>, <<"-","c">>,
      <<"-","u">>, <<"-","a","b">>, <<"-","a","a">>, <<"-","u","u">>,
      <<"-","a","z">>, <<"-","z","a">>, <<"-","h","z">>, <<"-","V","z">>,
      <<"-","h">> }

\* the parser after __init__(version=...) and the add_parameter calls above
InitScan ==
    /\ parameters = Registered(Constructor(TRUE, TRUE), ScanCalls)
    /\ dependency_params_restrictions = EmptyDict
    /\ incompatible_params_restrictions = EmptyDict
    /\ user_name_parameters = {}
    /\ status = "running"
    /\ last = [op |-> "init"]
    /\ parses = 0
    /\ decls = 0

NextScan == parses = 0 /\ \E args \in SeqsUpTo(ScanTokens, MaxArgs) : ParseParams(args)

SpecScan == InitScan /\ [][NextScan]_vars

\* ------------------------------------------------------------------------
\* SpecOrder: restrictions declared on a parser with a required parameter,
\* then one parse_params call
\* ------------------------------------------------------------------------

\* add_parameter('-r', action='store_true', required=True)
\* add_parameter('-a', action='store_true')
\* add_parameter('-b', action='store_true')
\* add_parameter('-c', action='store_true')
OrderCalls ==
    << ShortCall(<<"-","r">>, [StoreTrueKw EXCEPT !.required = TRUE]),
       ShortCall(<<"-","a">>, StoreTrueKw),
       ShortCall(<<"-","b">>, StoreTrueKw),
       ShortCall(<<"-","c">>, StoreTrueKw) >>

\* keys and restrictions handed to dependency_params and incompatible_params
OrderKeys == { <<"a">>, <<"b">> }
OrderRestrictions == { <<"b">>, <<"c">> }

OrderTokens == { <<"-","r">>, <<"-","a">>, <<"-","b">>, <<"-","c">> }

InitOrder ==
    /\ parameters = Registered(Constructor(TRUE, FALSE), OrderCalls)
    /\ dependency_params_restrictions = EmptyDict
    /\ incompatible_params_restrictions = EmptyDict
    /\ user_name_parameters = {}
    /\ status = "running"
    /\ last = [op |-> "init"]
    /\ parses = 0
    /\ decls = 0

NextOrder ==
    /\ parses = 0
    /\ \/ \E p \in OrderKeys, r \in OrderRestrictions : DependencyParams(<<p>>, <<r>>)
       \/ \E p \in OrderKeys, r \in OrderRestrictions : IncompatibleParams(<<p>>, <<r>>)
       \/ \E args \in SeqsUpTo(OrderTokens, MaxArgs) : ParseParams(args)

SpecOrder == InitOrder /\ [][NextOrder]_vars

\* ------------------------------------------------------------------------
\* SpecDecl: declarations with several keys and several restrictions
\* ------------------------------------------------------------------------

\* add_parameter('-a', action='store_true')
\* add_parameter('-b', action='store_true')
\* add_parameter('-c', action='store_true')
DeclCalls ==
    << ShortCall(<<"-","a">>, StoreTrueKw),
       ShortCall(<<"-","b">>, StoreTrueKw),
       ShortCall(<<"-","c">>, StoreTrueKw) >>

\* the key arguments of one call: one or two registered identifiers, the
\* same one twice included
DeclKeys ==
    LET ids == { <<"a">>, <<"b">> }
    IN  { <<p>> : p \in ids } \cup { <<p, q>> : p \in ids, q \in ids }

\* the last argument of one call: a list of one or two registered
\* identifiers, the same one twice included
DeclRestrictions ==
    LET ids == { <<"b">>, <<"c">> }
    IN  { <<r>> : r \in ids } \cup { <<r, s>> : r \in ids, s \in ids }

InitDecl ==
    /\ parameters = Registered(Constructor(FALSE, FALSE), DeclCalls)
    /\ dependency_params_restrictions = EmptyDict
    /\ incompatible_params_restrictions = EmptyDict
    /\ user_name_parameters = {}
    /\ status = "running"
    /\ last = [op |-> "init"]
    /\ parses = 0
    /\ decls = 0

NextDecl ==
    \/ \E keys \in DeclKeys, r \in DeclRestrictions : DependencyParams(keys, r)
    \/ \E keys \in DeclKeys, r \in DeclRestrictions : IncompatibleParams(keys, r)

SpecDecl == InitDecl /\ [][NextDecl]_vars

\* ------------------------------------------------------------------------
\* SpecLong: long commands of every shape, registered and parsed
\* ------------------------------------------------------------------------

\* the longest name after '--'
MaxName == 4

\* '--' and a name of letters and underscores
LongCandidates ==
    { <<"-","-">> \o name : name \in SeqsUpTo({"a", "B", "_"}, MaxName) \ {<<>>} }

InitLong ==
    /\ parameters = Constructor(FALSE, FALSE)
    /\ dependency_params_restrictions = EmptyDict
    /\ incompatible_params_restrictions = EmptyDict
    /\ user_name_parameters = {}
    /\ status = "running"
    /\ last = [op |-> "init"]
    /\ parses = 0
    /\ decls = 0

\* add_parameter('-x', long, action='store_true') and parse_params([long])
NextLong ==
    \/ \E long \in LongCandidates : AddParameter(LongCall(<<"-","x">>, long, StoreTrueKw))
    \/ \E long \in LongCandidates : ParseParams(<<long>>)

SpecLong == InitLong /\ [][NextLong]_vars

\* ------------------------------------------------------------------------
\* Properties
\* ------------------------------------------------------------------------

\* the registered parameter with short name name
ParamNamed(name) == parameters[_valid_parameter(parameters, "short", name)]

\* the candidate-value test as the specification words it, on a token
PassesValueTest(tok) == IntParses(tok) \/ ~(Len(tok) >= 1 /\ tok[1] = "-")

\* the token a store event's flag is followed by, j places on
TokenAfter(args, e, j) == args[e.from + 1 + j]

\* C1: a '+' or '*' parameter consumes exactly the longest run of tokens
\* after its flag that pass the candidate-value test, stores their coerced
\* values as a list in token order under its dest, and the scan resumes at
\* the first token it did not consume; -i 1 2 gives integers == [1, 2].
C1_GreedyRun ==
    last.op = "parse" =>
      LET out  == last.out
          args == out.args
      IN  /\ \A k \in 1..Len(out.events) :
                LET e    == out.events[k]
                    p    == ParamNamed(e.name)
                    n    == e.to - e.from
                    rest == Len(args) - (e.from + 1)
                IN  (p.action = "store" /\ p.nargs.k \in {"+", "*"}) =>
                      /\ n \in 0..rest
                      /\ \A j \in 1..n : PassesValueTest(TokenAfter(args, e, j))
                      /\ n < rest => ~PassesValueTest(TokenAfter(args, e, n + 1))
                      /\ e.val = PyList([j \in 1..n |->
                                            Convert(p.type, PyStr(TokenAfter(args, e, j)))])
                      /\ out.kind = "ok" =>
                            /\ out.ns[p.dest] = e.val
                            /\ n < rest =>
                                 \E m \in (k+1)..Len(out.events) :
                                     out.events[m].from = e.to + 1
          /\ args = << <<"-","i">>, <<"1">>, <<"2">> >> =>
                /\ out.kind = "ok"
                /\ out.ns[<<"i","n","t","e","g","e","r","s">>]
                      = PyList(<< PyInt(1), PyInt(2) >>)

C1_Witness ==
    /\ last.op = "parse"
    /\ last.out.kind = "ok"
    /\ \E k \in 1..Len(last.out.events) :
          /\ last.out.events[k].name = <<"i">>
          /\ last.out.events[k].to - last.out.events[k].from >= 1
          /\ last.out.events[k].to + 1 < Len(last.out.args)

\* C2: a '?' parameter with default d and const c holds d when its flag is
\* absent, c when the flag has no candidate token after it, and the coerced
\* token otherwise; each time the single value, never a list.
C2_OptionalScalar ==
    (last.op = "parse" /\ last.out.kind = "ok") =>
      LET out == last.out
      IN  \A q \in 1..Len(parameters) :
            LET p == parameters[q]
            IN  (p.action = "store" /\ p.nargs.k = "?") =>
                  /\ p.name \notin Range(out.resolved) => out.ns[p.dest] = p.default
                  /\ \A k \in 1..Len(out.events) :
                        LET e == out.events[k]
                        IN  e.name = p.name =>
                              out.ns[p.dest] =
                                 IF e.from + 1 < Len(out.args) /\
                                    PassesValueTest(TokenAfter(out.args, e, 1))
                                 THEN Convert(p.type, PyStr(TokenAfter(out.args, e, 1)))
                                 ELSE p.const

\* -o 7 is parsed and o holds the list [7]
C2_Witness ==
    /\ last.op = "parse"
    /\ last.out.args = << <<"-","o">>, <<"7">> >>
    /\ last.out.kind = "ok"
    /\ last.out.ns[<<"o">>] = PyList(<< PyInt(7) >>)

\* C3: in every consumption mode a token after a flag is taken as a value
\* exactly when it parses as an integer or does not begin with '-': the
\* tokens a parameter consumed all pass the test, a '?', '+' or '*' parameter
\* stops before a token that fails it, and a fixed-arity parameter is refused
\* "is not a valid value" only over a token that fails it.  -n -5 gives
\* n == -5, and -1.5 is not taken as a value.
C3_CandidateTest ==
    last.op = "parse" =>
      LET out  == last.out
          args == out.args
      IN  /\ \A k \in 1..Len(out.events) :
                LET e    == out.events[k]
                    p    == ParamNamed(e.name)
                    n    == e.to - e.from
                    rest == Len(args) - (e.from + 1)
                IN  p.action = "store" =>
                      /\ \A j \in 1..n : PassesValueTest(TokenAfter(args, e, j))
                      /\ (p.nargs.k \in {"+", "*"} /\ n < rest) =>
                            ~PassesValueTest(TokenAfter(args, e, n + 1))
                      /\ (p.nargs.k = "?" /\ rest > 0) =>
                            (n = 1 <=> PassesValueTest(TokenAfter(args, e, 1)))
          /\ (out.kind = "error" /\ out.stage = "scan"
                /\ out.err = "is not a valid value"
                /\ ParamNamed(out.errparam).nargs.k = "int") =>
                \E j \in 1..ParamNamed(out.errparam).nargs.n :
                    ~PassesValueTest(args[out.index + 1 + j])
          /\ args = << <<"-","n">>, <<"-","5">> >> =>
                out.kind = "ok" /\ out.ns[<<"n">>] = PyInt(-5)
          /\ (Len(args) = 2 /\ args[1] \in {<<"-","m">>, <<"-","n">>, <<"-","i">>}
                /\ args[2] = <<"-","1",".","5">>) =>
                out.kind = "error"
          /\ (Len(args) = 2 /\ args[1] \in {<<"-","s">>, <<"-","o">>}
                /\ args[2] = <<"-","1",".","5">>) =>
                /\ out.kind = "error"
                /\ out.err = "not a valid parameter format"
                /\ out.events[1].to = out.events[1].from

C3_Witness ==
    /\ last.op = "parse"
    /\ last.out.args = << <<"-","n">>, <<"-","5">> >>
    /\ last.out.kind = "ok"
    /\ last.out.ns[<<"n">>] = PyInt(-5)

\* C4: a store parameter of fixed arity N holds a scalar only when N is 1
\* and the caller left nargs unspecified; with nargs given, 1 included, it
\* holds the list of its N values.
C4_ScalarOnlyUnspecified ==
    last.op = "parse" =>
      \A k \in 1..Len(last.out.events) :
          LET e == last.out.events[k]
              p == ParamNamed(e.name)
          IN  (p.action = "store" /\ p.nargs.k = "int") =>
                IF p.nargs.n = 1 /\ p.default_nargs
                THEN e.val = Convert(p.type, PyStr(TokenAfter(last.out.args, e, 1)))
                ELSE e.val = PyList([j \in 1..p.nargs.n |->
                                  Convert(p.type, PyStr(TokenAfter(last.out.args, e, j)))])

\* -n 1, with -n registered with nargs=1, is parsed and n holds the scalar 1
C4_Witness ==
    /\ last.op = "parse"
    /\ last.out.args = << <<"-","n">>, <<"1">> >>
    /\ ~ParamNamed(<<"n">>).default_nargs
    /\ last.out.kind = "ok"
    /\ last.out.ns[<<"n">>] = PyInt(1)

\* the letters of a short token, each as a token of its own
SeparateLetters(tok) == [k \in 1..(Len(tok) - 1) |-> <<"-", tok[k+1]>>]

RECURSIVE Unbundled(_)
Unbundled(args) ==
    IF Len(args) = 0 THEN <<>>
    ELSE SeparateLetters(args[1]) \o Unbundled(Tail(args))

\* the short name is registered with store_true or store_false
IsSwitch(name) ==
    /\ _valid_parameter(parameters, "short", name) # 0
    /\ ParamNamed(name).action \in {"store_true", "store_false"}

\* every token is '-' and letters that name store_true / store_false parameters
OnlySwitchBundles(args) ==
    \A k \in 1..Len(args) :
        /\ Len(args[k]) >= 2
        /\ args[k][1] = "-"
        /\ \A j \in 2..Len(args[k]) : IsSwitch(<<args[k][j]>>)

\* what a caller sees of a parse
Visible(out) ==
    [ kind |-> out.kind, err |-> out.err, errparam |-> out.errparam,
      ns |-> IF out.kind = "ok" THEN out.ns ELSE <<>>, resolved |-> out.resolved ]

\* C5: a short bundle of store_true / store_false letters resolves its
\* letters from left to right, once each, and gives the result that the
\* letters give as separate tokens; -abc sets a and b to True (and c, a
\* store_false parameter, to False).
C5_BundleAsSeparate ==
    (last.op = "parse" /\ OnlySwitchBundles(last.out.args)) =>
      LET out  == last.out
          flat == Unbundled(out.args)
      IN  /\ Visible(out) \in
                { Visible(o) : o \in ParseOutcomes(parameters,
                                        dependency_params_restrictions,
                                        incompatible_params_restrictions, {}, flat) }
          /\ out.kind = "ok" =>
                /\ out.resolved = [k \in 1..Len(flat) |-> <<flat[k][2]>>]
                /\ \A k \in 1..Len(flat) :
                      out.ns[ParamNamed(<<flat[k][2]>>).dest]
                         = PyBool(ParamNamed(<<flat[k][2]>>).action = "store_true")
          /\ out.args = << <<"-","a","b","c">> >> =>
                /\ out.kind = "ok"
                /\ out.ns[<<"a">>] = PyBool(TRUE)
                /\ out.ns[<<"b">>] = PyBool(TRUE)
                /\ out.ns[<<"c">>] = PyBool(FALSE)

C5_Witness ==
    /\ last.op = "parse"
    /\ last.out.args = << <<"-","a","b","c">> >>
    /\ last.out.kind = "ok"
    /\ last.out.resolved = << <<"a">>, <<"b">>, <<"c">> >>

\* C10: after a successful parse a parameter whose dest the scan did not
\* write holds its (coerced) default, unless the default is SUPPRESS, and
\* then its dest is absent; what the scan wrote is left as it is.
C10_DefaultsFilled ==
    (last.op = "parse" /\ last.out.kind = "ok") =>
      LET out == last.out
      IN  /\ \A q \in 1..Len(parameters) :
                LET p == parameters[q]
                IN  p.dest \notin DOMAIN out.scan_ns =>
                      IF p.default = SUPPRESS
                      THEN p.dest \notin DOMAIN out.ns
                      ELSE p.dest \in DOMAIN out.ns /\ out.ns[p.dest] = p.default
          /\ \A d \in DOMAIN out.scan_ns :
                d \in DOMAIN out.ns /\ out.ns[d] = out.scan_ns[d]
          /\ <<"o">> \notin DOMAIN out.scan_ns => out.ns[<<"o">>] = PyInt(10)

C10_Witness ==
    /\ last.op = "parse"
    /\ last.out.kind = "ok"
    /\ <<"m">> \in DOMAIN last.out.scan_ns
    /\ <<"o">> \notin DOMAIN last.out.scan_ns
    /\ last.out.ns[<<"o">>] = PyInt(10)
    /\ <<"q">> \notin DOMAIN last.out.ns

\* no two registered parameters share a short name, a long name or a dest
UniqueRegistry ==
    \A i, j \in 1..Len(parameters) :
        i # j =>
          /\ parameters[i].name # parameters[j].name
          /\ parameters[i].dest # parameters[j].dest
          /\ (parameters[i].has_long /\ parameters[j].has_long) =>
                parameters[i].long_name # parameters[j].long_name

\* the call names a short name, a long name or a dest that params holds
Duplicates(params, call) ==
    \E k \in 1..Len(params) :
        \/ params[k].name = ShortName(call)
        \/ call.has_long /\ params[k].has_long /\ params[k].long_name = LongName(call)
        \/ params[k].dest = DestOf(call)

\* a step of add_parameter whose call duplicates a registered name fails
\* with a ParameterError (exit status 2) and leaves the registry as it was
DuplicateRejected ==
    (last'.op = "add" /\ Duplicates(parameters, last'.call)) =>
        /\ last'.err # ""
        /\ status' = "exit2"
        /\ parameters' = parameters

\* C6: after any sequence of add_parameter calls, those of __init__ for
\* -h/--help and -V/--version included, no two registered parameters share a
\* short name, a long name or a dest, and a call that duplicates one fails at
\* registration and appends nothing.
C6_UniqueNames == [](UniqueRegistry) /\ [][DuplicateRejected]_vars

C6_Witness ==
    /\ last.op = "add"
    /\ last.err = "duplicate as dest"
    /\ status = "exit2"
    /\ Len(parameters) >= 3

\* the parameter an identifier of a restriction names
IdentName(ident) == RemoveFirstDash(ident)

\* the unordered pairs {key, restriction} of two parameters in a restriction
\* dictionary
PairsOf(dict) ==
    UNION { { {IdentName(key), IdentName(dict[key][k])} :
                k \in { j \in 1..Len(dict[key]) :
                          IdentName(dict[key][j]) # IdentName(key) } } :
            key \in DOMAIN dict }

\* no entry of the dictionary restricts a parameter by itself
NoSelfEntry(dict) ==
    \A key \in DOMAIN dict : \A k \in 1..Len(dict[key]) :
        IdentName(dict[key][k]) # IdentName(key)

\* C7: after any sequence of declarations no unordered pair of parameters is
\* in both dictionaries: a declaration that would put it there, in either
\* direction, fails at declaration time.
C7_NoPairInBoth ==
    status = "running" =>
        PairsOf(dependency_params_restrictions)
            \cap PairsOf(incompatible_params_restrictions) = {}

\* a depends on b and b is incompatible with a, both declared without error
C7_Witness ==
    /\ status = "running"
    /\ dependency_params_restrictions = (<<"a">> :> << <<"b">> >>)
    /\ incompatible_params_restrictions = (<<"b">> :> << <<"a">> >>)

\* the parameters resolved during the last parse
ResolvedNow == Range(last.out.resolved)

\* some key of the dictionary was resolved during the last parse and a
\* restriction of it was not (missing) or was too (present)
EntryBroken(dict, key, wantPresent) ==
    /\ IdentName(key) \in ResolvedNow
    /\ \E k \in 1..Len(dict[key]) :
          (IdentName(dict[key][k]) \in ResolvedNow) = wantPresent

\* the identifiers of the entry that make it broken
BrokenIdents(dict, key, wantPresent) ==
    { dict[key][k] : k \in { j \in 1..Len(dict[key]) :
                               (IdentName(dict[key][j]) \in ResolvedNow) = wantPresent } }

\* C8: once the scan, the required check and the incompatibility check have
\* passed, the parse fails with the missing-dependency error exactly when a
\* key of the dependency dictionary was resolved during this parse and one
\* of its restrictions was not; the error lists that entry's missing ones.
\* Stated for dictionaries in which no parameter restricts itself.
C8_DependencyIff ==
    (last.op = "parse" /\ last.out.kind \in {"ok", "error"}
       /\ last.out.stage \in {"", "dependency"}
       /\ NoSelfEntry(dependency_params_restrictions)
       /\ NoSelfEntry(incompatible_params_restrictions)) =>
      /\ (last.out.stage = "dependency") <=>
            \E key \in DOMAIN dependency_params_restrictions :
                EntryBroken(dependency_params_restrictions, key, FALSE)
      /\ last.out.stage = "dependency" =>
            \E key \in DOMAIN dependency_params_restrictions :
                /\ IdentName(key) = last.out.errparam
                /\ EntryBroken(dependency_params_restrictions, key, FALSE)
                /\ Range(last.out.detail)
                      = BrokenIdents(dependency_params_restrictions, key, FALSE)

\* a depends on b; a second parse of -a alone succeeds
C8_Witness ==
    /\ dependency_params_restrictions = (<<"a">> :> << <<"b">> >>)
    /\ incompatible_params_restrictions = <<>>
    /\ parses = 2
    /\ last.op = "parse"
    /\ last.out.args = << <<"-","a">> >>
    /\ last.out.kind = "ok"

\* C8 as it stands for the first parse_params call of a parser, when
\* user_name_parameters holds the names of this parse only
C8_FirstParse == parses <= 1 => C8_DependencyIff

\* C9: once the scan and the required check have passed, the parse fails
\* with the conflict error exactly when a key of the incompatibility
\* dictionary and one of its restrictions were both resolved during this
\* parse, whatever the order of the flags and whichever was declared the key.
\* Stated for dictionaries in which no parameter restricts itself.
C9_IncompatibleIff ==
    (last.op = "parse" /\ last.out.kind \in {"ok", "error"}
       /\ last.out.stage \in {"", "incompatible", "dependency"}
       /\ NoSelfEntry(dependency_params_restrictions)
       /\ NoSelfEntry(incompatible_params_restrictions)) =>
      ((last.out.stage = "incompatible") <=>
            \E key \in DOMAIN incompatible_params_restrictions :
                EntryBroken(incompatible_params_restrictions, key, TRUE))

\* a is incompatible with b; a second parse of -b alone fails with the
\* conflict error
C9_Witness ==
    /\ incompatible_params_restrictions = (<<"a">> :> << <<"b">> >>)
    /\ dependency_params_restrictions = <<>>
    /\ parses = 2
    /\ last.op = "parse"
    /\ last.out.args = << <<"-","b">> >>
    /\ last.out.kind = "error"
    /\ last.out.stage = "incompatible"

\* C9 as it stands for the first parse_params call of a parser
C9_FirstParse == parses <= 1 => C9_IncompatibleIff

\* the parameter resolved k-th during the last parse
ResolvedParam(k) == ParamNamed(last.out.resolved[k])

\* the action writes a value under dest
Writes(p) == p.action \in {"store", "store_true", "store_false"}

\* C11: within one parse, resolving a store, store_true or store_false
\* parameter whose dest was written earlier in that parse (a repeated flag,
\* a letter twice in a bundle, the short and the long form) ends the parse
\* with "passed more than one time"; no dest is written twice.
C11_NoDestTwice ==
    last.op = "parse" =>
      /\ \A i, j \in 1..Len(last.out.resolved) :
            (i < j /\ Writes(ResolvedParam(i)) /\ Writes(ResolvedParam(j))
               /\ ResolvedParam(i).dest = ResolvedParam(j).dest) =>
                  /\ last.out.kind = "error"
                  /\ last.out.err = "passed more than one time"
                  /\ j = Len(last.out.resolved)
      /\ \A i, j \in 1..Len(last.out.events) :
            i < j => ParamNamed(last.out.events[i].name).dest
                        # ParamNamed(last.out.events[j].name).dest

\* -u -u, with -u stored under '_u', is parsed without error
C11_Witness ==
    /\ last.op = "parse"
    /\ last.out.args = << <<"-","u">>, <<"-","u">> >>
    /\ last.out.kind = "ok"
    /\ Len(last.out.events) = 2

\* C11 for the parameters whose dest Namespace.__iter__ yields
C11_VisibleDests ==
    last.op = "parse" =>
      \A i, j \in 1..Len(last.out.resolved) :
          (i < j /\ Writes(ResolvedParam(i)) /\ Writes(ResolvedParam(j))
             /\ ResolvedParam(i).dest = ResolvedParam(j).dest
             /\ ResolvedParam(i).dest[1] # "_") =>
                /\ last.out.kind = "error"
                /\ last.out.err = "passed more than one time"

\* the dests of the required parameters the scan of the last parse did not write
MissingRequired ==
    { parameters[q].dest : q \in { k \in 1..Len(parameters) :
          parameters[k].required /\ parameters[k].dest \notin DOMAIN last.out.scan_ns } }

\* a key of the incompatibility dictionary and one of its restrictions were
\* both resolved during the last parse
IncompatibilityViolated ==
    \E key \in DOMAIN incompatible_params_restrictions :
        EntryBroken(incompatible_params_restrictions, key, TRUE)

\* a key of the dependency dictionary was resolved during the last parse and
\* one of its restrictions was not
DependencyViolated ==
    \E key \in DOMAIN dependency_params_restrictions :
        EntryBroken(dependency_params_restrictions, key, FALSE)

\* C12: after the scan the checks run in the order required, incompatibility,
\* dependency, and the first to fail is the error reported: a missing
\* required parameter is reported even when restrictions are violated too,
\* and an incompatibility is reported before a missing dependency.  The
\* defaults are filled in only when all three checks pass.
C12_CheckOrder ==
    (last.op = "parse" /\ last.out.kind \in {"ok", "error"}
       /\ last.out.stage # "scan") =>
      /\ MissingRequired # {} =>
            /\ last.out.stage = "required"
            /\ Range(last.out.detail) = MissingRequired
      /\ (MissingRequired = {} /\ IncompatibilityViolated) =>
            last.out.stage = "incompatible"
      /\ (MissingRequired = {} /\ ~IncompatibilityViolated /\ DependencyViolated) =>
            last.out.stage = "dependency"
      /\ last.out.kind = "ok" =>
            /\ MissingRequired = {} /\ ~IncompatibilityViolated /\ ~DependencyViolated
            /\ \A q \in 1..Len(parameters) :
                  parameters[q].default # SUPPRESS =>
                      parameters[q].dest \in DOMAIN last.out.ns
      /\ last.out.kind = "error" => last.out.ns = last.out.scan_ns

\* no required parameter is missing, an incompatibility and a dependency are
\* both violated, and the incompatibility is the error reported
C12_Witness ==
    /\ last.op = "parse"
    /\ last.out.stage = "incompatible"
    /\ MissingRequired = {}
    /\ IncompatibilityViolated
    /\ DependencyViolated

\* C13: the names resolved during a parse are state of that parse alone: the
\* list is empty when a parse_params call begins, and what a call returns or
\* reports is what a parser with the same parameters and restrictions that
\* has parsed nothing gives for the same tokens.
C13_NamesPerParse ==
    /\ status = "running" => user_name_parameters = {}
    /\ last.op = "parse" =>
          Visible(last.out) \in
              { Visible(o) : o \in ParseOutcomes(parameters,
                                      dependency_params_restrictions,
                                      incompatible_params_restrictions,
                                      {}, last.out.args) }

\* b is incompatible with a; after a first parse, a parse of -a alone fails
\* with the conflict error
C13_Witness ==
    /\ incompatible_params_restrictions = (<<"b">> :> << <<"a">> >>)
    /\ dependency_params_restrictions = <<>>
    /\ parses = 2
    /\ last.op = "parse"
    /\ last.out.args = << <<"-","a">> >>
    /\ last.out.resolved = << <<"a">> >>
    /\ last.out.stage = "incompatible"

\* C13 for the first parse_params call of a parser
C13_FirstParse ==
    (last.op = "parse" /\ parses <= 1) =>
          Visible(last.out) \in
              { Visible(o) : o \in ParseOutcomes(parameters,
                                      dependency_params_restrictions,
                                      incompatible_params_restrictions,
                                      {}, last.out.args) }

\* the token is '-' and letters, one of which is no registered short name
UnknownInBundle(tok) ==
    /\ Len(tok) >= 2
    /\ tok[1] = "-"
    /\ \A j \in 2..Len(tok) : tok[j] \in Letters
    /\ \E j \in 2..Len(tok) : \A q \in 1..Len(parameters) : parameters[q].name # <<tok[j]>>

\* C14: a short bundle with a letter that is no registered short name is
\* rejected whole: the parse that reaches it ends with the unknown-parameter
\* error, exit status 2, and none of its letters has stored a value or shown
\* the help or the version.
C14_WholeTokenRejected ==
    last.op = "parse" =>
      LET out == last.out
          k   == out.index + 1
      IN  /\ (out.kind = "ok" \/ (out.kind = "error" /\ out.stage # "scan")) =>
                \A j \in 1..Len(out.args) : ~UnknownInBundle(out.args[j])
          /\ (k <= Len(out.args) /\ UnknownInBundle(out.args[k])) =>
                /\ out.kind = "error"
                /\ out.err = "not a valid parameter"
                /\ status = "exit2"
                /\ \A e \in 1..Len(out.events) : out.events[e].from # out.index

\* -hz, z being no parameter, shows the help and exits with status 0
C14_Witness ==
    /\ last.op = "parse"
    /\ last.out.args = << <<"-","h","z">> >>
    /\ last.out.kind = "help"
    /\ status = "exit0"

\* C14 for a bundle whose first letter is the one that is not registered
C14_UnknownFirst ==
    last.op = "parse" =>
      LET out == last.out
          k   == out.index + 1
      IN  (k <= Len(out.args) /\ UnknownInBundle(out.args[k])
             /\ \A q \in 1..Len(parameters) : parameters[q].name # <<out.args[k][2]>>) =>
                /\ out.kind = "error"
                /\ out.err = "not a valid parameter"
                /\ status = "exit2"
                /\ \A e \in 1..Len(out.events) : out.events[e].from # out.index

\* '--' and a name of at least two characters, the first and the last
\* letters, those between letters or underscores
LongGrammar(s) ==
    /\ Len(s) >= 4
    /\ s[1] = "-" /\ s[2] = "-"
    /\ s[3] \in Letters
    /\ s[Len(s)] \in Letters
    /\ \A k \in 4..(Len(s) - 1) : s[k] \in Letters \cup {"_"}

\* C15: a long flag is accepted, by add_parameter and by parse_params alike,
\* exactly when it is '--' and a name of at least two characters whose first
\* and last are letters and whose others are letters or underscores; --ab
\* and --a_b are long flags.
C15_LongFlagGrammar ==
    /\ (last.op = "add" /\ last.err # "duplicated as short command") =>
          (last.err = "" <=> LongGrammar(last.call.long))
    /\ (last.op = "parse" /\ Len(last.out.args) = 1) =>
          (last.out.err # "not a valid parameter format"
              <=> LongGrammar(last.out.args[1]))

\* add_parameter('-x', '--ab') is refused: not valid as long command
C15_Witness ==
    /\ last.op = "add"
    /\ last.call.long = <<"-","-","a","B">>
    /\ last.err = "is not valid as long command"
    /\ status = "exit2"

\* a store parameter of fixed arity
IsFixed(p) == p.action = "store" /\ p.nargs.k = "int"

\* the last parse ended in an error raised for a fixed-arity parameter while
\* its values were taken
FixedFailed ==
    /\ last.out.kind = "error"
    /\ last.out.stage = "scan"
    /\ last.out.errparam # <<>>
    /\ IsFixed(ParamNamed(last.out.errparam))
    /\ last.out.err # "passed more than one time"

\* the tokens left after the flag that failed, and the j-th of them
FailedRest == Len(last.out.args) - (last.out.index + 1)
FailedToken(j) == last.out.args[last.out.index + 1 + j]

\* the items of a stored value, be it one value or a list
Items(v) == IF v.t = "list" THEN v.l ELSE <<v>>

\* type(token) succeeds
Coercible(p, tok) == p.type = "int" => IntParses(tok)

\* the store events of fixed-arity parameters take exactly N tokens, store
\* their coerced values in order, and the scan resumes after them
FixedTakesN ==
    \A k \in 1..Len(last.out.events) :
        LET e == last.out.events[k]
            p == ParamNamed(e.name)
        IN  IsFixed(p) =>
              /\ e.to = e.from + p.nargs.n
              /\ e.to < Len(last.out.args)
              /\ Items(e.val) = [j \in 1..p.nargs.n |->
                                    Convert(p.type, PyStr(TokenAfter(last.out.args, e, j)))]
              /\ \A m \in 1..Len(last.out.events) :
                    last.out.events[m].from \notin (e.from + 1)..e.to
              /\ (last.out.kind = "ok" /\ e.to + 1 < Len(last.out.args)) =>
                    \E m \in (k+1)..Len(last.out.events) :
                        last.out.events[m].from = e.to + 1

\* C16 as stated: with fewer than N tokens left a fixed-arity parameter
\* fails "needs N values"; otherwise the N tokens after the flag are its
\* values whatever they look like: a token that begins with '-' and is no
\* integer is neither resolved as a flag nor a reason to refuse the parse,
\* and the scan resumes after the N tokens.
C16_FixedUnconditional ==
    last.op = "parse" =>
      /\ FixedTakesN
      /\ FixedFailed =>
            /\ last.out.err = "needs N values"
                  <=> FailedRest < ParamNamed(last.out.errparam).nargs.n
            /\ last.out.err # "is not a valid value"

\* C16 amended: with fewer than N tokens left a fixed-arity parameter fails
\* "needs N values"; otherwise the N tokens after the flag are taken as its
\* candidates, none of them resolved as a flag, and the first of them that
\* begins with '-' and is no integer ends the parse with "is not a valid
\* value"; when all N are values they are stored and the scan resumes after
\* them.
C16_FixedCandidates ==
    last.op = "parse" =>
      /\ FixedTakesN
      /\ \A k \in 1..Len(last.out.events) :
            LET e == last.out.events[k]
            IN  IsFixed(ParamNamed(e.name)) =>
                  \A j \in 1..ParamNamed(e.name).nargs.n :
                      PassesValueTest(TokenAfter(last.out.args, e, j))
      /\ FixedFailed =>
            LET p == ParamNamed(last.out.errparam)
            IN  /\ last.out.err = "needs N values" <=> FailedRest < p.nargs.n
                /\ FailedRest >= p.nargs.n =>
                      /\ last.out.err \in {"is not a valid value", "is not type"}
                      /\ last.out.err = "is not a valid value" <=>
                            \E j \in 1..p.nargs.n :
                                /\ ~PassesValueTest(FailedToken(j))
                                /\ \A m \in 1..(j-1) :
                                      /\ PassesValueTest(FailedToken(m))
                                      /\ Coercible(p, FailedToken(m))

\* -t x -a, with -t of nargs 2: -a is taken as a candidate and refused
C16_Witness ==
    /\ last.op = "parse"
    /\ last.out.args = << <<"-","t">>, <<"x">>, <<"-","a">> >>
    /\ last.out.kind = "error"
    /\ last.out.errparam = <<"t">>
    /\ last.out.err = "is not a valid value"
    /\ last.out.resolved = << <<"t">> >>

\* the last call was a declaration one of whose keys names the parameter
\* that one of its restrictions names
SelfDeclared ==
    /\ last.op \in {"dependency", "incompatible"}
    /\ \E k \in 1..Len(last.keys), r \in 1..Len(last.restriction) :
          IdentName(last.keys[k]) = IdentName(last.restriction[r])

\* C17: no parameter is in its own list of dependencies or of
\* incompatibilities: a declaration whose key and restriction name the same
\* parameter, with or without the leading '-', fails with an error and
\* leaves no such entry.
C17_NoSelfReference ==
    /\ NoSelfEntry(dependency_params_restrictions)
    /\ NoSelfEntry(incompatible_params_restrictions)
    /\ SelfDeclared => (last.err # "" /\ status = "exit2")

\* dependency_params('-a', 'a') has returned and -a depends on itself
C17_Witness ==
    /\ status = "running"
    /\ last.op = "dependency"
    /\ last.err = ""
    /\ dependency_params_restrictions = (<<"-","a">> :> << <<"a">> >>)

\* C17 for a key and a restriction that are the same string
C17_SameSpelling ==
    (last.op \in {"dependency", "incompatible"}
       /\ \E k \in 1..Len(last.keys), r \in 1..Len(last.restriction) :
             last.keys[k] = last.restriction[r]) =>
        (last.err # "" /\ status = "exit2")

\* the value a switch holds after a parse in which it was passed or not
SwitchValue(p, passed) ==
    PyBool(IF p.action = "store_true" THEN passed ELSE ~passed)

\* C18: after a successful parse a store_true parameter of any type, str
\* included, holds the boolean False when its flag was not passed and True
\* when it was, and a store_false parameter the opposite.
C18_SwitchBooleans ==
    (last.op = "parse" /\ last.out.kind = "ok") =>
      \A q \in 1..Len(parameters) :
          LET p == parameters[q]
          IN  p.action \in {"store_true", "store_false"} =>
                /\ p.dest \in DOMAIN last.out.ns
                /\ last.out.ns[p.dest]
                      = SwitchValue(p, p.name \in Range(last.out.resolved))

\* nothing is passed and alpha, a store_true parameter of type str, holds the
\* string 'False'
C18_Witness ==
    /\ last.op = "parse"
    /\ last.out.args = <<>>
    /\ last.out.kind = "ok"
    /\ last.out.ns[<<"a","l","p","h","a">>] = PyStr(<<"F","a","l","s","e">>)

\* C18 for the switches registered with type=bool
C18_BoolSwitches ==
    (last.op = "parse" /\ last.out.kind = "ok") =>
      \A q \in 1..Len(parameters) :
          LET p == parameters[q]
          IN  (p.action \in {"store_true", "store_false"} /\ p.type = "bool") =>
                /\ p.dest \in DOMAIN last.out.ns
                /\ last.out.ns[p.dest]
                      = SwitchValue(p, p.name \in Range(last.out.resolved))

\* no identifier appears twice in the list of any key of dict
NoRepeats(dict) ==
    \A key \in DOMAIN dict :
        \A i, j \in 1..Len(dict[key]) : dict[key][i] = dict[key][j] => i = j

\* C19: every dependency_params / incompatible_params call on registered
\* identifiers ends, by updating its dictionary or by a configuration error,
\* also when a key is listed twice in the call or has an entry already; and
\* when it returns each identifier appears once in the list of each key.
C19_DeclarationsTerminate ==
    /\ status # "hang"
    /\ status = "running" => /\ NoRepeats(dependency_params_restrictions)
                             /\ NoRepeats(incompatible_params_restrictions)

\* a call that lists a key without an entry twice never returns
C19_Witness ==
    /\ status = "hang"
    /\ last.op = "dependency"
    /\ last.keys = << <<"a">>, <<"a">> >>
    /\ last.restriction = << <<"b">> >>

\* a call that returns leaves no identifier twice in a list, and only a call
\* that lists twice a key that had no entry fails to return
C19_ReturnedCalls ==
    /\ status = "running" => /\ NoRepeats(dependency_params_restrictions)
                             /\ NoRepeats(incompatible_params_restrictions)
    /\ status = "hang" =>
         \E i, j \in 1..Len(last.keys) : i # j /\ last.keys[i] = last.keys[j]

====
